---- MODULE Spec2Model ----
(***************************************************************************)
(* Console support agent (src/main.py): the session loop run_loop, the     *)
(* router handle_query, the four agents and the two gated function tools.  *)
(*                                                                         *)
(* Text is modelled as a sequence of one-character strings, so that        *)
(* str.strip() and str.lower() are computed and not assumed.  The          *)
(* inference backend is the environment: it returns any triage output of   *)
(* TriageOutputs or raises any exception of BackendErrors.                 *)
(***************************************************************************)
EXTENDS Naturals, Sequences, FiniteSets

VARIABLES
    pc,             \* position of run_loop / handle_query
    context,        \* user_context, the UserContext passed by reference
    prompt,         \* local `prompt` of run_loop (None before the first read)
    triage_result,  \* final_output of the triage call of the query in hand
    category,       \* local `category` of handle_query
    inflight,       \* Runner.run calls awaited and not yet returned
    calls,          \* every Runner.run call started in the session, in order
    printed,        \* what print() has written, in order
    nReads,         \* number of input() calls made
    gemini_api_key, \* os.getenv("GEMINI_API_KEY") at module load
    last_triage,    \* latest triage output returned in the session (history)
    event           \* what the latest step was (history, not program state)

vars == <<pc, context, prompt, triage_result, category, inflight, calls,
          printed, nReads, gemini_api_key, last_triage, event>>

\* Number of input() calls the model lets a session make.
MaxReads == 2

\* Longest triage output on which normalization alone is exercised.
MaxLen == 3

-----------------------------------------------------------------------------
(* Text *)

\* Python's None, distinct from every text built over Chars.
None == <<"<None>">>

Whitespace == {" ", "\t", "\n"}

\* str.lower() on one character.
LowerChar(c) ==
    CASE c = "B" -> "b"
      [] c = "T" -> "t"
      [] c = "G" -> "g"
      [] c = "H" -> "h"
      [] OTHER -> c

\* str.lower()
Lower(s) == [i \in 1..Len(s) |-> LowerChar(s[i])]

\* Only the first leading whitespace character removed.
LStrip_OneChar(s) ==
    IF s # <<>> /\ Head(s) \in Whitespace THEN Tail(s) ELSE s

RECURSIVE LStrip(_)
LStrip(s) ==
    IF s # <<>> /\ Head(s) \in Whitespace THEN LStrip(Tail(s)) ELSE s

RECURSIVE RStrip(_)
RStrip(s) ==
    IF s # <<>> /\ s[Len(s)] \in Whitespace
    THEN RStrip(SubSeq(s, 1, Len(s) - 1))
    ELSE s

\* str.strip()
Strip(s) == RStrip(LStrip(s))

\* triage_result.final_output.strip().lower()
Normalize(s) == Lower(Strip(s))

STR_billing == <<"b", "i", "l", "l", "i", "n", "g">>
STR_technical == <<"t", "e", "c", "h", "n", "i", "c", "a", "l">>
STR_general == <<"g", "e", "n", "e", "r", "a", "l">>
STR_urgent == <<"u", "r", "g", "e", "n", "t">>

\* Lines the console can deliver to input().
Lines ==
    { <<>>,
      <<" ", "\t">>,
      <<"h", "i">>,
      <<" ", "H", "i", "\n">> }

\* Texts the backend can return as the triage agent's final_output.
TriageOutputs ==
    { <<"B">> \o Tail(STR_billing),
      <<" ">> \o STR_technical \o <<" ">>,
      <<"T", "e", "c", "h", "n", "i", "c", "a", "l", "\n">>,
      STR_general,
      STR_urgent,
      <<>>,
      <<"b", "i", "l", "l">>,
      STR_technical \o <<" ">> \o STR_billing }

\* Failures the backend can raise (all subclasses of Exception).
BackendErrors == {"network", "quota"}

-----------------------------------------------------------------------------
(* Tools and agents *)

\* getattr(obj, field, default)
GetAttr(obj, field, default) ==
    IF field \in DOMAIN obj THEN obj[field] ELSE default

\* The gate of the refund tool left open.
refund_is_enabled_Open(tool, ctx) == TRUE

\* refund_tool.is_enabled
refund_is_enabled(tool, ctx) ==
    GetAttr(ctx, "is_premium_user", FALSE)

\* restart_service_tool.is_enabled
restart_is_enabled(tool, ctx) ==
    GetAttr(ctx, "issue_type", None) = STR_technical

is_enabled(tool, ctx) ==
    CASE tool = "refund_tool" -> refund_is_enabled(tool, ctx)
      [] tool = "restart_service_tool" -> restart_is_enabled(tool, ctx)

triage_agent == [name |-> "Triage Bot", tools |-> <<>>]
billing_agent == [name |-> "Billing Bot", tools |-> <<"refund_tool">>]
tech_agent == [name |-> "Tech Support Bot", tools |-> <<"restart_service_tool">>]
general_agent == [name |-> "General Bot", tools |-> <<>>]

\* Every tool whose gate holds offered, whichever agent is called.
Offered_GateOnly(agent, ctx) ==
    { t \in {"refund_tool", "restart_service_tool"} : is_enabled(t, ctx) }

\* Every function tool of the module offered to every agent, ungated.
Offered_AllTools(agent, ctx) == {"refund_tool", "restart_service_tool"}

\* The actions offered to the backend in one Runner.run call: the tools of
\* the agent whose gate holds of the context at that call.
Offered(agent, ctx) ==
    { agent.tools[i] : i \in { j \in DOMAIN agent.tools : is_enabled(agent.tools[j], ctx) } }

\* Routing on a prefix of the category instead of on equality.
Route_Prefix(cat) ==
    IF Len(cat) >= 4 /\ SubSeq(cat, 1, 4) = SubSeq(STR_billing, 1, 4) THEN billing_agent
    ELSE IF Len(cat) >= 4 /\ SubSeq(cat, 1, 4) = SubSeq(STR_technical, 1, 4) THEN tech_agent
    ELSE general_agent

\* The if / elif / else of handle_query.
Route(cat) ==
    IF cat = STR_billing THEN billing_agent
    ELSE IF cat = STR_technical THEN tech_agent
    ELSE general_agent

\* One Runner.run(agent, prompt, run_config=config, context=context) call,
\* as started for query number q.
RunnerCall(q, agent, p, ctx) ==
    [ q |-> q, agent |-> agent.name, prompt |-> p,
      offered |-> Offered(agent, ctx), ctx |-> ctx ]

-----------------------------------------------------------------------------
(* The session *)

\* UserContext(...): issue_type defaults to None.  run_loop builds
\* UserContext(name="Omer", is_premium_user=True); handle_query takes any
\* UserContext, so the session is started from each of them.
UserContext(name, premium) ==
    [name |-> name, is_premium_user |-> premium, issue_type |-> None]

Names == {None, <<"O", "m", "e", "r">>}

Printed(kind, text) == [kind |-> kind, text |-> text]

Event(kind, arg) == [kind |-> kind, arg |-> arg]

\* What os.getenv("GEMINI_API_KEY") can return: unset, empty, or a key.
ApiKeys == {None, <<>>, <<"k", "e", "y">>}

\* The module is being loaded; context is the UserContext run_loop will
\* build once it is entered.
Init ==
    /\ pc = "startup"
    /\ gemini_api_key \in ApiKeys
    /\ context \in { UserContext(n, p) : n \in Names, p \in BOOLEAN }
    /\ prompt = None
    /\ triage_result = None
    /\ category = None
    /\ last_triage = None
    /\ inflight = {}
    /\ calls = <<>>
    /\ printed = <<>>
    /\ nReads = 0
    /\ event = Event("load", None)

\* The credential check passed although the key is unset or empty.
CredentialMissing_Unchecked(key) == FALSE

\* `not gemini_api_key`: None and the empty text are falsy.
CredentialMissing(key) == key = None \/ key = <<>>

\* Module load: raise ValueError when the key is missing, otherwise
\* asyncio.run(run_loop()) enters the loop after printing the greeting.
Startup ==
    /\ pc = "startup"
    /\ IF CredentialMissing(gemini_api_key)
       THEN /\ pc' = "fatal"
            /\ event' = Event("fatal", None)
            /\ UNCHANGED printed
       ELSE /\ pc' = "input"
            /\ event' = Event("start", None)
            /\ printed' = Append(printed, Printed("greeting", "hello"))
    /\ UNCHANGED <<context, prompt, triage_result, category, last_triage,
                   inflight, calls, nReads, gemini_api_key>>

\* The states in which the while loop of run_loop is running.
Running == {"input", "triage", "respond"}

\* handle_query started without being awaited: the loop reads on at once.
LoopReady_NotAwaited == pc \in {"input", "triage", "respond"}

\* The loop is at input(): handle_query is awaited, so no query is in hand.
LoopReady == pc = "input"

\* The blank test made on the line as read, before strip().
Skipped_Unstripped(line) == line = <<>>

\* `if not prompt: continue`, on the stripped line.
Skipped(line) == Strip(line) = <<>>

\* The write of line 109 left out.
SetIssueType_Omitted(ctx, cat) == ctx

\* The category stored only when it is one of the three expected tokens.
SetIssueType_KnownOnly(ctx, cat) ==
    IF cat \in {STR_billing, STR_technical, STR_general}
    THEN [ctx EXCEPT !.issue_type = cat]
    ELSE ctx

\* A new record built from the defaults instead of a write to one field.
SetIssueType_Rebuild(ctx, cat) ==
    [name |-> None, is_premium_user |-> FALSE, issue_type |-> cat]

\* context.issue_type = category
SetIssueType(ctx, cat) == [ctx EXCEPT !.issue_type = cat]

\* The error printed and the loop left.
OnException_Break(out, e) ==
    [printed |-> Append(out, [kind |-> "error", text |-> e]), pc |-> "exited"]

\* except Exception as e: print(f"Error: {e}"), and the loop goes on.
OnException(out, e) ==
    [printed |-> Append(out, Printed("error", e)), pc |-> "input"]

\* The farewell printed without the break.
OnKeyboardInterrupt_NoBreak(out) ==
    [printed |-> Append(out, [kind |-> "farewell", text |-> "bye"]), pc |-> "input"]

\* except KeyboardInterrupt: print the farewell; break.
OnKeyboardInterrupt(out) ==
    [printed |-> Append(out, Printed("farewell", "bye")), pc |-> "exited"]

\* prompt = input().strip(); if not prompt: continue; otherwise
\* handle_query starts and awaits the triage call.
ReadLine(line) ==
    /\ LoopReady
    /\ nReads < MaxReads
    /\ nReads' = nReads + 1
    /\ event' = Event("read", line)
    /\ prompt' = Strip(line)
    /\ IF Skipped(line)
       THEN /\ pc' = "input"
            /\ UNCHANGED <<triage_result, category, inflight, calls>>
       ELSE LET c == RunnerCall(nReads', triage_agent, prompt', context) IN
            /\ pc' = "triage"
            /\ triage_result' = None
            /\ category' = None
            /\ inflight' = inflight \cup {c}
            /\ calls' = Append(calls, c)
    /\ UNCHANGED <<context, printed, gemini_api_key, last_triage>>

\* input() raises (EOFError at end of input): caught by except Exception.
InputRaises ==
    /\ LoopReady
    /\ nReads < MaxReads
    /\ nReads' = nReads + 1
    /\ event' = Event("raise", None)
    /\ LET h == OnException(printed, "eof") IN
       /\ printed' = h.printed
       /\ pc' = h.pc
    /\ UNCHANGED <<context, prompt, triage_result, category, inflight, calls,
                   gemini_api_key, last_triage>>

\* The category handed to the selected agent in place of the prompt.
Dispatched_PassCategory(q, cat, p, ctx) == <<RunnerCall(q, Route(cat), cat, ctx)>>

\* The branch without its else: an unknown category starts no call.
Dispatched_NoElse(q, cat, p, ctx) ==
    IF cat \in {STR_billing, STR_technical}
    THEN <<RunnerCall(q, Route(cat), p, ctx)>>
    ELSE <<>>

\* The calls the if / elif / else of handle_query starts for category cat:
\* every branch returns the one call of the agent it selects.
Dispatched(q, cat, p, ctx) == <<RunnerCall(q, Route(cat), p, ctx)>>

\* The triage call returns out: lines 108-109, then the branch starts the
\* call of the selected agent and awaits it.
TriageReturn(out) ==
    /\ pc = "triage"
    /\ event' = Event("triage_return", out)
    /\ triage_result' = out
    /\ last_triage' = out
    /\ category' = Normalize(out)
    /\ context' = SetIssueType(context, category')
    /\ LET d == Dispatched(nReads, category', prompt, context') IN
       /\ inflight' = { x \in inflight : x.agent # triage_agent.name }
                        \cup { d[i] : i \in DOMAIN d }
       /\ calls' = calls \o d
    /\ pc' = "respond"
    /\ UNCHANGED <<prompt, printed, nReads, gemini_api_key>>

\* The selected agent's call returns: print("\nAI Bot:", result.final_output).
RespondReturn ==
    /\ pc = "respond"
    /\ event' = Event("respond_return", None)
    /\ inflight' = {}
    /\ printed' = Append(printed, Printed("response", calls[Len(calls)].agent))
    /\ pc' = "input"
    /\ UNCHANGED <<context, prompt, triage_result, category, calls, nReads,
                   gemini_api_key, last_triage>>

\* A failed triage call tried once more before the failure is reported.
CallRaises_Retry(e) ==
    /\ pc \in {"triage", "respond"}
    /\ event' = Event("raise", None)
    /\ IF pc = "triage" /\ Cardinality({ i \in DOMAIN calls : calls[i].q = nReads }) = 1
       THEN LET c == RunnerCall(nReads, triage_agent, prompt, context) IN
            /\ calls' = Append(calls, c)
            /\ inflight' = {c}
            /\ UNCHANGED <<printed, pc>>
       ELSE /\ inflight' = {}
            /\ printed' = Append(printed, [kind |-> "error", text |-> e])
            /\ pc' = "input"
            /\ UNCHANGED calls
    /\ UNCHANGED <<context, prompt, triage_result, category, nReads,
                   gemini_api_key, last_triage>>

\* issue_type cleared when a call of the query fails.
CallRaises_ResetIssue(e) ==
    /\ pc \in {"triage", "respond"}
    /\ event' = Event("raise", None)
    /\ inflight' = {}
    /\ printed' = Append(printed, [kind |-> "error", text |-> e])
    /\ pc' = "input"
    /\ context' = [context EXCEPT !.issue_type = None]
    /\ UNCHANGED <<prompt, triage_result, category, calls, nReads,
                   gemini_api_key, last_triage>>

\* An awaited Runner.run call raises e: handle_query does not catch it.
CallRaises(e) ==
    /\ pc \in {"triage", "respond"}
    /\ event' = Event("raise", None)
    /\ inflight' = {}
    /\ LET h == OnException(printed, e) IN
       /\ printed' = h.printed
       /\ pc' = h.pc
    /\ UNCHANGED <<context, prompt, triage_result, category, calls, nReads,
                   gemini_api_key, last_triage>>

\* The interrupt is raised as KeyboardInterrupt inside the try block, at
\* input() or in the code of an awaited call.
KeyboardInterrupt ==
    /\ pc \in Running
    /\ event' = Event("keyboard_interrupt", None)
    /\ inflight' = {}
    /\ LET h == OnKeyboardInterrupt(printed) IN
       /\ printed' = h.printed
       /\ pc' = h.pc
    /\ UNCHANGED <<context, prompt, triage_result, category, calls, nReads,
                   gemini_api_key, last_triage>>

\* The interrupt reaches asyncio.run while the task is suspended in an
\* await: the task is cancelled, and CancelledError is neither an
\* Exception nor a KeyboardInterrupt, so no except clause of run_loop runs.
Cancelled ==
    /\ pc \in {"triage", "respond"}
    /\ event' = Event("cancel", None)
    /\ inflight' = {}
    /\ pc' = "cancelled"
    /\ UNCHANGED <<context, prompt, triage_result, category, calls, printed,
                   nReads, gemini_api_key, last_triage>>

Next ==
    \/ Startup
    \/ \E line \in Lines : ReadLine(line)
    \/ InputRaises
    \/ \E out \in TriageOutputs : TriageReturn(out)
    \/ RespondReturn
    \/ \E e \in BackendErrors : CallRaises(e)
    \/ KeyboardInterrupt
    \/ Cancelled

Spec == Init /\ [][Next]_vars

-----------------------------------------------------------------------------
(* Normalization on its own: line 108 applied to every short text, and
   applied once more to its own result. *)

NormChars == {" ", "\n", "B", "b", "T"}

Texts == UNION { [1..k -> NormChars] : k \in 0..MaxLen }

NormInit ==
    /\ pc = "normalize"
    /\ triage_result \in Texts
    /\ category = None
    /\ context = UserContext(None, FALSE)
    /\ prompt = None
    /\ last_triage = None
    /\ inflight = {}
    /\ calls = <<>>
    /\ printed = <<>>
    /\ nReads = 0
    /\ gemini_api_key = <<"k", "e", "y">>
    /\ event = Event("load", None)

\* category = triage_result.final_output.strip().lower()
NormalizeOnce ==
    /\ pc = "normalize"
    /\ category' = Normalize(triage_result)
    /\ pc' = "normalized"
    /\ event' = Event("normalize", triage_result)
    /\ UNCHANGED <<context, prompt, triage_result, last_triage, inflight, calls,
                   printed, nReads, gemini_api_key>>

\* The same expression applied to the category it produced.
NormalizeAgain ==
    /\ pc = "normalized"
    /\ category' = Normalize(category)
    /\ pc' = "renormalized"
    /\ event' = Event("normalize", category)
    /\ UNCHANGED <<context, prompt, triage_result, last_triage, inflight, calls,
                   printed, nReads, gemini_api_key>>

NormNext == NormalizeOnce \/ NormalizeAgain

NormSpec == NormInit /\ [][NormNext]_vars

-----------------------------------------------------------------------------
(* Properties *)

Last(s) == s[Len(s)]

TXT_Billing == <<"B">> \o Tail(STR_billing)
TXT_technical_padded == <<" ">> \o STR_technical \o <<" ">>
TXT_Technical_nl == <<"T", "e", "c", "h", "n", "i", "c", "a", "l", "\n">>
TXT_bill == <<"b", "i", "l", "l">>
TXT_technical_billing == STR_technical \o <<" ">> \o STR_billing

\* The calls of the session made to an agent other than the triage agent.
ResponderCalls == { i \in DOMAIN calls : calls[i].agent # "Triage Bot" }

\* The responder calls made for query number q.
ResponderCallsOf(q) == { i \in ResponderCalls : calls[i].q = q }

\* The queries handed to handle_query so far.
RouterQueries == { calls[i].q : i \in DOMAIN calls }

\* C1: once the triage call of a query has returned, the one responder call
\* of that query goes to the Billing agent when the trimmed, lower-cased
\* triage output is "billing", to the Technical agent when it is
\* "technical", and to the General agent for every other value (empty,
\* multi-word, partial, "general", unexpected); a call is always made.
C1_DispatchByNormalizedCategory ==
    triage_result # None =>
        /\ Len(calls) >= 2
        /\ LET c == Last(calls)
               t == calls[Len(calls) - 1]
               n == Normalize(triage_result)
           IN /\ t.agent = "Triage Bot"
              /\ t.q = c.q
              /\ ResponderCallsOf(c.q) = {Len(calls)}
              /\ n = STR_billing => c.agent = "Billing Bot"
              /\ n = STR_technical => c.agent = "Tech Support Bot"
              /\ n \notin {STR_billing, STR_technical} => c.agent = "General Bot"
              /\ triage_result = TXT_Billing => c.agent = "Billing Bot"
              /\ triage_result \in {TXT_technical_padded, TXT_Technical_nl}
                     => c.agent = "Tech Support Bot"
              /\ triage_result \in {<<>>, STR_general, STR_urgent, TXT_bill,
                                    TXT_technical_billing}
                     => c.agent = "General Bot"

C1_Witness ==
    /\ pc = "respond"
    /\ triage_result = TXT_technical_billing
    /\ Last(calls).agent = "General Bot"

\* C2: once the triage call of a query has returned, and after the query
\* has been handled, context.issue_type is the trimmed, lower-cased triage
\* output of that query, whichever responder was dispatched and whether or
\* not the token is a known category.
C2_IssueTypeIsNormalizedTriage ==
    triage_result # None =>
        /\ context.issue_type = Normalize(triage_result)
        /\ triage_result = STR_urgent => context.issue_type = STR_urgent
        /\ triage_result = TXT_Billing => context.issue_type = STR_billing
        /\ triage_result = TXT_Technical_nl => context.issue_type = STR_technical
        /\ triage_result = <<>> => context.issue_type = <<>>

C2_Witness ==
    /\ pc = "input"
    /\ event.kind = "respond_return"
    /\ triage_result = STR_urgent
    /\ context.issue_type = STR_urgent
    /\ Last(calls).agent = "General Bot"

\* C3: in every backend call of the session the refund tool is offered only
\* if is_premium_user was true of the context at that call; with a
\* non-premium context no call is offered it, the Billing agent's included.
C3_RefundOnlyForPremium ==
    \A i \in DOMAIN calls :
        /\ "refund_tool" \in calls[i].offered => calls[i].ctx.is_premium_user = TRUE
        /\ ~context.is_premium_user => "refund_tool" \notin calls[i].offered

C3_Witness ==
    /\ ~context.is_premium_user
    /\ pc = "respond"
    /\ Last(calls).agent = "Billing Bot"
    /\ Last(calls).offered = {}

\* C4: in every backend call of the session the restart tool is offered only
\* if issue_type was "technical" in the context at that call.
C4_RestartOnlyWhenTechnical ==
    \A i \in DOMAIN calls :
        "restart_service_tool" \in calls[i].offered
            => calls[i].ctx.issue_type = STR_technical

C4_Witness ==
    /\ \E i \in DOMAIN calls :
           /\ calls[i].agent = "Tech Support Bot"
           /\ "restart_service_tool" \in calls[i].offered
    /\ \E j \in DOMAIN calls :
           /\ calls[j].ctx.issue_type = None
           /\ calls[j].offered = {}
    /\ Last(calls).ctx.issue_type = STR_urgent
    /\ Last(calls).offered = {}

\* C5 as stated: every query handed to handle_query has, once it is over,
\* exactly one responder call beyond the triage call.
C5_Original_ExactlyOnePerQuery ==
    pc = "input" => \A q \in RouterQueries : Cardinality(ResponderCallsOf(q)) = 1

\* C5 amended: a responder call is started exactly when a triage call
\* returns, and then exactly one, the first of its query; a query whose
\* triage call fails or is interrupted gets none.
C5_OneResponderPerReturnedTriage ==
    [][ IF event'.kind = "triage_return"
        THEN /\ ResponderCallsOf(nReads) = {}
             /\ ResponderCalls' = ResponderCalls \cup {Len(calls')}
             /\ Len(calls') = Len(calls) + 1
             /\ calls'[Len(calls')].q = nReads
        ELSE ResponderCalls' = ResponderCalls ]_vars

C5_Witness ==
    /\ pc = "input"
    /\ \E q \in RouterQueries : Cardinality(ResponderCallsOf(q)) = 1
    /\ \E q \in RouterQueries : Cardinality(ResponderCallsOf(q)) = 0

AllWhitespace(line) == \A i \in DOMAIN line : line[i] \in Whitespace

\* C6: a step in which input() or an awaited backend call raises an
\* Exception prints one error message and leaves the loop at input(), ready
\* for the next prompt; the loop leaves its running states only in a step
\* of the interrupt.
C6_FailureNeverEndsSession ==
    [][ /\ event'.kind = "raise" =>
            /\ pc' = "input"
            /\ Len(printed') = Len(printed) + 1
            /\ printed'[Len(printed')].kind = "error"
            /\ SubSeq(printed', 1, Len(printed)) = printed
        /\ (pc \in Running /\ pc' \notin Running) =>
            event'.kind \in {"keyboard_interrupt", "cancel"} ]_vars

C6_Witness ==
    /\ pc = "respond"
    /\ nReads = 2
    /\ Len(calls) = 3
    /\ Len(printed) = 2
    /\ printed[2] = [kind |-> "error", text |-> "network"]

\* C7: a step that reads an empty or whitespace-only line starts no call,
\* prints nothing, leaves the context as it was and leaves the loop at
\* input().
C7_BlankLineSkipped ==
    [][ (event'.kind = "read" /\ nReads' = nReads + 1 /\ AllWhitespace(event'.arg)) =>
            /\ calls' = calls
            /\ inflight' = inflight
            /\ printed' = printed
            /\ context' = context
            /\ pc = "input"
            /\ pc' = "input" ]_vars

C7_Witness ==
    /\ event = [kind |-> "read", arg |-> <<" ", "\t">>]
    /\ pc = "input"
    /\ nReads = 2
    /\ context.issue_type = STR_technical

\* C8: no step changes name or is_premium_user; the context changes only in
\* the step in which the triage call returns, by the write of issue_type,
\* and the responder call started in that step is given the written
\* context; a step that starts a call (and so evaluates the gates) without
\* a triage return leaves the context as it was.
C8_OnlyRouterWritesIssueType ==
    [][ /\ context'.name = context.name
        /\ context'.is_premium_user = context.is_premium_user
        /\ context' # context =>
            /\ event'.kind = "triage_return"
            /\ pc = "triage"
            /\ pc' = "respond"
            /\ context' = [context EXCEPT !.issue_type = Normalize(event'.arg)]
            /\ calls'[Len(calls')].agent # "Triage Bot"
        /\ Len(calls') > Len(calls) => calls'[Len(calls')].ctx = context'
        /\ event'.kind # "triage_return" => context' = context ]_vars

C8_Witness ==
    /\ pc = "respond"
    /\ nReads = 2
    /\ Len(calls) = 4
    /\ context.name # None
    /\ context.is_premium_user
    /\ context.issue_type = STR_billing
    /\ calls[1].ctx.issue_type = None
    /\ calls[3].ctx.issue_type = STR_technical

\* C9 as stated: whenever the loop has been ended by the interrupt, the
\* farewell is the last thing printed and the loop was left by the break.
C9_Original_FarewellInEveryState ==
    pc \in {"exited", "cancelled"} => (pc = "exited" /\ Last(printed).kind = "farewell")

\* C9 amended: an interrupt raised as KeyboardInterrupt inside the loop
\* body (at input() or in an awaited call) prints the farewell and leaves
\* the loop by the break, with no error message; the loop waiting at input()
\* is ended in no other way; an interrupt that cancels the task suspended on
\* a backend call ends the loop with nothing printed.
C9_KeyboardInterruptIsGraceful ==
    [][ /\ event'.kind = "keyboard_interrupt" =>
            /\ pc \in Running
            /\ pc' = "exited"
            /\ printed' = Append(printed, [kind |-> "farewell", text |-> "bye"])
        /\ event'.kind = "cancel" =>
            /\ pc \in {"triage", "respond"}
            /\ pc' = "cancelled"
            /\ printed' = printed
        /\ (pc = "input" /\ pc' \notin Running) => event'.kind = "keyboard_interrupt"
        /\ pc \in {"exited", "cancelled"} => pc' = pc ]_vars

C9_Witness ==
    /\ pc = "exited"
    /\ Len(calls) = 3
    /\ event.kind = "keyboard_interrupt"
    /\ Last(printed).kind = "farewell"
    /\ Last(calls).agent = "Triage Bot"
    /\ nReads = 2

\* Printed outcomes of queries: responses, and errors of backend calls.
QueryOutcomes ==
    { i \in DOMAIN printed :
        \/ printed[i].kind = "response"
        \/ printed[i].kind = "error" /\ printed[i].text \in BackendErrors }

\* C10: at most one backend call is in flight, it is the latest call and
\* belongs to the query read last; while the loop is at input() none is in
\* flight and every query handed to the router has printed its response or
\* its error.
C10_OneQueryAtATime ==
    /\ Cardinality(inflight) <= 1
    /\ \A c \in inflight : c = Last(calls) /\ c.q = nReads
    /\ pc \in {"triage", "respond"} <=> inflight # {}
    /\ pc = "input" => Cardinality(RouterQueries) = Cardinality(QueryOutcomes)
    /\ pc \in {"triage", "respond"} =>
           Cardinality(RouterQueries) = Cardinality(QueryOutcomes) + 1

C10_Witness ==
    /\ pc = "respond"
    /\ Cardinality(inflight) = 1
    /\ nReads = 2
    /\ Len(calls) = 4

\* C11: with the credential unset (or empty) at module load, the only step
\* is the fatal error: the loop is never entered, nothing is printed, no
\* line is read and no backend call is made, and nothing follows it.
C11_MissingCredentialIsFatal ==
    /\ gemini_api_key \in {None, <<>>} =>
           /\ pc \in {"startup", "fatal"}
           /\ nReads = 0
           /\ calls = <<>>
           /\ inflight = {}
           /\ printed = <<>>
           /\ prompt = None
    /\ pc = "fatal" => (event.kind = "fatal" /\ gemini_api_key \in {None, <<>>})
    /\ gemini_api_key \notin {None, <<>>} => pc # "fatal"

C11_Witness ==
    /\ pc = "fatal"
    /\ gemini_api_key = None
    /\ calls = <<>>
    /\ nReads = 0

\* C12: normalizing an already normalized triage output changes nothing,
\* normalize(normalize(x)) = normalize(x), so routing on the renormalized
\* token selects the same agent; the normalized token has no whitespace at
\* either end.
C12_NormalizeIdempotent ==
    pc = "renormalized" =>
        /\ event.arg = Normalize(triage_result)
        /\ category = event.arg
        /\ Route(category).name = Route(event.arg).name
        /\ category # <<>> =>
               (Head(category) \notin Whitespace /\ Last(category) \notin Whitespace)

C12_Witness ==
    /\ pc = "renormalized"
    /\ triage_result = <<" ", "\n", "B">>
    /\ category = <<"b">>

CallsOf(q) == { i \in DOMAIN calls : calls[i].q = q }

TriageCallsOf(q) == { i \in CallsOf(q) : calls[i].agent = "Triage Bot" }

\* C14: the step in which a triage call raises starts no call and returns
\* the loop to input(); every query has exactly one triage call and at
\* most two calls in all; a triage call is started only by reading a new
\* line and a responder call only by a triage return, for the query in hand.
C14_TriageFailureNotRetried ==
    [][ /\ (event'.kind = "raise" /\ pc = "triage") =>
            /\ calls' = calls
            /\ inflight' = {}
            /\ pc' = "input"
        /\ \A q \in RouterQueries' :
            /\ Cardinality(TriageCallsOf(q)') = 1
            /\ Cardinality(CallsOf(q)') <= 2
        /\ Len(calls') >= Len(calls)
        /\ Len(calls') > Len(calls) =>
            /\ Len(calls') = Len(calls) + 1
            /\ calls'[Len(calls')].q = nReads'
            /\ IF calls'[Len(calls')].agent = "Triage Bot"
               THEN event'.kind = "read" /\ nReads' = nReads + 1
               ELSE event'.kind = "triage_return" /\ nReads' = nReads ]_vars

C14_Witness ==
    /\ pc = "input"
    /\ event.kind = "raise"
    /\ Len(calls) = 3
    /\ calls[3].agent = "Triage Bot"
    /\ Cardinality(CallsOf(2)) = 1

\* C15: every responder call carries the prompt of the triage call of the
\* same query, which is the stripped line as typed; it is neither the
\* triage output nor the category.
C15_ResponderGetsOriginalPrompt ==
    /\ \A i \in ResponderCalls :
           /\ i > 1
           /\ calls[i - 1].agent = "Triage Bot"
           /\ calls[i - 1].q = calls[i].q
           /\ calls[i].prompt = calls[i - 1].prompt
           /\ calls[i].prompt \in {<<"h", "i">>, <<"H", "i">>}
    /\ pc = "respond" =>
           /\ Last(calls).prompt = prompt
           /\ Last(calls).prompt # triage_result
           /\ Last(calls).prompt # category

C15_Witness ==
    /\ pc = "respond"
    /\ event.kind = "triage_return"
    /\ Last(calls).agent = "Billing Bot"
    /\ Last(calls).prompt = <<"H", "i">>
    /\ category = STR_billing

\* C16: the tools offered in a call are among the tools of the agent called
\* and have their gate true of the context of the call: none for the triage
\* and General agents, at most refund for Billing, at most restart for
\* Technical.
C16_OfferedWithinAgentTools ==
    \A i \in DOMAIN calls :
        LET c == calls[i] IN
        /\ c.agent \in {"Triage Bot", "General Bot"} => c.offered = {}
        /\ c.agent = "Billing Bot" => c.offered \subseteq {"refund_tool"}
        /\ c.agent = "Tech Support Bot" => c.offered \subseteq {"restart_service_tool"}
        /\ "refund_tool" \in c.offered => c.ctx.is_premium_user
        /\ "restart_service_tool" \in c.offered => c.ctx.issue_type = STR_technical

C16_Witness ==
    /\ Len(calls) = 3
    /\ calls[3].agent = "Triage Bot"
    /\ calls[3].ctx.is_premium_user
    /\ calls[3].ctx.issue_type = STR_technical
    /\ calls[3].offered = {}
    /\ calls[2].offered = {"restart_service_tool"}

\* C17: while the loop waits at input(), issue_type is None if no triage
\* call of the session has returned, and otherwise the normalized output of
\* the latest triage call that returned: a failed triage call leaves it as
\* the earlier query set it, a failed responder call leaves what its own
\* query wrote.
C17_IssueTypeFollowsLastReturnedTriage ==
    pc = "input" =>
        /\ last_triage = None => context.issue_type = None
        /\ last_triage # None => context.issue_type = Normalize(last_triage)
        /\ (last_triage = None) <=> (ResponderCalls = {})

C17_Witness ==
    /\ pc = "input"
    /\ event.kind = "raise"
    /\ Len(calls) = 3
    /\ calls[3].agent = "Triage Bot"
    /\ last_triage = TXT_technical_padded
    /\ context.issue_type = STR_technical

\* A responder call failed: the category its query wrote stays.
C17_WitnessResponderFailed ==
    /\ pc = "input"
    /\ event.kind = "raise"
    /\ Len(calls) = 4
    /\ calls[3].ctx.issue_type = STR_technical
    /\ context.issue_type = STR_urgent
====
